---- MODULE Spec2Model ----
(***************************************************************************)
(* A model of src/src/server.js (the room/channel translation server,      *)
(* lines 260-726): the room registry, the channel broadcaster, the         *)
(* subscribe handler and the asynchronous submit handler with its          *)
(* per-language fan-out.                                                   *)
(*                                                                         *)
(* Strings are sequences of one-character strings, so that trim(),         *)
(* toLowerCase(), split(',') and the channel key are computed the way the  *)
(* code computes them.  A query parameter that is absent and one that is   *)
(* present but empty are both the empty sequence: every read in the code   *)
(* is `get(..) || ''` or `!get(..)`, which do not tell them apart.         *)
(***************************************************************************)
EXTENDS Integers, Sequences, FiniteSets, TLC

(* ------------------------------ bounds -------------------------------- *)
\* keep-alive ticks per listener
MaxPings == 1
\* submit requests and subscribe requests in a run of each world (below)
AuthSubmits == 2
AuthListeners == 1
DeliverySubmits == 1
DeliveryListeners == 2
RetrySubmits == 1
RetryListeners == 1
PipelineSubmits == 1
PipelineListeners == 1
UsageSubmits == 2
UsageListeners == 1
CostSubmits == 1
CostListeners == 1
ResponseSubmits == 1
ResponseListeners == 1
BindSubmits == 2
BindListeners == 1
OrderSubmits == 1
OrderListeners == 1

(* ------------------------------ strings ------------------------------- *)
UpperAZ == <<"A","B","C","D","E","F","G","H","I","J","K","L","M",
             "N","O","P","Q","R","S","T","U","V","W","X","Y","Z">>
LowerAZ == <<"a","b","c","d","e","f","g","h","i","j","k","l","m",
             "n","o","p","q","r","s","t","u","v","w","x","y","z">>

IsSpace(c) == c \in {" ", "\t", "\n"}

LowerChar(c) ==
  IF \E k \in DOMAIN UpperAZ : UpperAZ[k] = c
    THEN LowerAZ[CHOOSE k \in DOMAIN UpperAZ : UpperAZ[k] = c]
    ELSE c

\* String.prototype.toLowerCase
ToLowerCase(s) == [k \in DOMAIN s |-> LowerChar(s[k])]

RECURSIVE TrimStart(_)
TrimStart(s) ==
  IF s # <<>> /\ IsSpace(Head(s)) THEN TrimStart(Tail(s)) ELSE s

RECURSIVE TrimEnd(_)
TrimEnd(s) ==
  IF s # <<>> /\ IsSpace(s[Len(s)]) THEN TrimEnd(SubSeq(s, 1, Len(s) - 1)) ELSE s

\* nothing trimmed
TrimNone(s) == s

\* String.prototype.trim
Trim(s) == TrimEnd(TrimStart(s))

\* String.prototype.includes
Includes(s, sub) ==
  \E k \in 0..(Len(s) - Len(sub)) : SubSeq(s, k + 1, k + Len(sub)) = sub

\* String.prototype.split(',') : the pieces between the commas, in order
RECURSIVE SplitComma(_)
SplitComma(s) ==
  IF \E k \in DOMAIN s : s[k] = ","
    THEN LET k == CHOOSE j \in DOMAIN s : s[j] = "," /\ \A h \in 1..(j - 1) : s[h] # ","
         IN  <<SubSeq(s, 1, k - 1)>> \o SplitComma(SubSeq(s, k + 1, Len(s)))
    ELSE <<s>>

RECURSIVE FlatMapSplit(_)
FlatMapSplit(vs) ==
  IF vs = <<>> THEN <<>> ELSE SplitComma(Head(vs)) \o FlatMapSplit(Tail(vs))

\* the last occurrence of each element, in order
RECURSIVE DedupeKeepLast(_)
DedupeKeepLast(xs) ==
  IF xs = <<>> THEN <<>>
  ELSE LET rest == DedupeKeepLast(Tail(xs))
       IN  IF \E k \in DOMAIN rest : rest[k] = Head(xs) THEN rest
           ELSE <<Head(xs)>> \o rest

\* Array.from(new Set(xs)) : the first occurrence of each element, in order
RECURSIVE Dedupe(_)
Dedupe(xs) ==
  IF xs = <<>> THEN <<>>
  ELSE LET init == Dedupe(SubSeq(xs, 1, Len(xs) - 1))
           x == xs[Len(xs)]
       IN  IF \E k \in DOMAIN init : init[k] = x THEN init ELSE Append(init, x)

RECURSIVE FilterNonEmpty(_)
FilterNonEmpty(xs) ==
  IF xs = <<>> THEN <<>>
  ELSE IF Head(xs) = <<>> THEN FilterNonEmpty(Tail(xs))
       ELSE <<Head(xs)>> \o FilterNonEmpty(Tail(xs))

(* ----------------------------- literals ------------------------------- *)
DefaultRoom == <<"d","e","f","a","u","l","t">>
UnknownLang == <<"u","n","k","n","o","w","n">>
English == <<"E","n","g","l","i","s","h">>
english == <<"e","n","g","l","i","s","h">>
Cantonese == <<"C","a","n","t","o","n","e","s","e">>
cantonese == <<"c","a","n","t","o","n","e","s","e">>
mandarin == <<"m","a","n","d","a","r","i","n">>
\* the two instruction labels of normalizeTargetLanguageLabel, shortened
CantoneseLabel == <<"C","a","n","t","o","n","e","s","e"," ","(","T","C",")">>
MandarinLabel == <<"M","a","n","d","a","r","i","n"," ","(","S","C",")">>
\* JavaScript null / undefined where a string may also stand: no string of
\* one-character elements equals it
Null == <<"null">>

(* --------------------------- pure functions --------------------------- *)
normalizeTargetLanguageLabel(language) ==
  LET lower == ToLowerCase(language)
  IN  IF Includes(lower, cantonese) THEN CantoneseLabel
      ELSE IF Includes(lower, mandarin) THEN MandarinLabel
      ELSE language

\* the key without the lowercasing of the language
channelNameCaseKept(room, language) ==
  (IF room = <<>> THEN DefaultRoom ELSE room) \o <<":">> \o
  (IF language = <<>> THEN UnknownLang ELSE language)

channelName(room, language) ==
  (IF room = <<>> THEN DefaultRoom ELSE room) \o <<":">> \o
  (IF ToLowerCase(language) = <<>> THEN UnknownLang ELSE ToLowerCase(language))

\* url.searchParams.getAll('targetLang') is `repeats`, get('targetLangs') is `list`
parseTargetLanguages(repeats, list) ==
  LET langsFromRepeats == FlatMapSplit(repeats)
      langsFromList == SplitComma(list)
      joined == langsFromRepeats \o langsFromList
      all == FilterNonEmpty([k \in DOMAIN joined |-> Trim(joined[k])])
  IN  IF all # <<>> THEN Dedupe(all) ELSE <<English>>

\* outputMode values
TextMode == <<"t","e","x","t">>
AudioMode == <<"a","u","d","i","o">>
BothMode == <<"b","o","t","h">>

(* ------------------------------ base64 -------------------------------- *)
B64Alphabet ==
  UpperAZ \o LowerAZ \o <<"0","1","2","3","4","5","6","7","8","9","+","/">>

\* Buffer.from(bytes).toString('base64'), bytes a sequence of 0..255
RECURSIVE Base64(_)
Base64(b) ==
  IF b = <<>> THEN <<>>
  ELSE LET n == Len(b)
           b1 == b[1]
           b2 == IF n >= 2 THEN b[2] ELSE 0
           b3 == IF n >= 3 THEN b[3] ELSE 0
           c1 == b1 \div 4
           c2 == (b1 % 4) * 16 + (b2 \div 16)
           c3 == (b2 % 16) * 4 + (b3 \div 64)
           c4 == b3 % 64
       IN  << B64Alphabet[c1 + 1], B64Alphabet[c2 + 1],
              IF n >= 2 THEN B64Alphabet[c3 + 1] ELSE "=",
              IF n >= 3 THEN B64Alphabet[c4 + 1] ELSE "=" >>
           \o Base64(SubSeq(b, 4, n))

(* ------------------------------- state -------------------------------- *)
VARIABLES
  apiKey,         \* OPENAI_API_KEY is set (fixed at process start)
  translateModel, \* OPENAI_TRANSLATE_MODEL (fixed at process start)
  roomPasscodes,  \* Map room -> passcode
  subscribers,    \* Map channel -> Set<res>, res a listener id
  sessionUsage,   \* { prompt_tokens, completion_tokens, total_tokens }
  reqs,           \* the submit requests: position in the handler and its locals
  lis             \* the subscribe requests and their connections

vars == <<apiKey, translateModel, roomPasscodes, subscribers, sessionUsage, reqs, lis>>

Reqs == DOMAIN reqs
Lis == DOMAIN lis

(* ------------------------------- maps --------------------------------- *)
EmptyMap == [k \in {} |-> <<>>]

\* a lookup that never finds the key
MapGetMissing(m, k) == <<>>

\* Map.prototype.get; undefined is << >> (every caller only tests it for
\* truthiness or compares it with a string)
MapGet(m, k) == IF k \in DOMAIN m THEN m[k] ELSE <<>>

MapSet(m, k, v) == [x \in (DOMAIN m) \cup {k} |-> IF x = k THEN v ELSE m[x]]

MapDelete(m, k) == [x \in (DOMAIN m) \ {k} |-> m[x]]

(* ------------------------- channel broadcaster ------------------------ *)
addSubscriber(subs, channel, res) ==
  LET withSet == IF channel \in DOMAIN subs THEN subs ELSE MapSet(subs, channel, {})
  IN  MapSet(withSet, channel, withSet[channel] \cup {res})

\* the emptied set left in the map
removeSubscriberKeepsEmpty(subs, channel, res) ==
  IF channel \notin DOMAIN subs THEN subs
  ELSE MapSet(subs, channel, subs[channel] \ {res})

\* the channel entry dropped without looking at what is left in the set
removeSubscriberDropsChannel(subs, channel, res) ==
  IF channel \notin DOMAIN subs THEN subs ELSE MapDelete(subs, channel)

removeSubscriber(subs, channel, res) ==
  IF channel \notin DOMAIN subs THEN subs
  ELSE LET set == subs[channel] \ {res}
       IN  IF set = {} THEN MapDelete(subs, channel)
           ELSE MapSet(subs, channel, set)

\* res.write(data) on the connection of listener record c: delivered while the
\* connection is open; on a destroyed socket the write returns false and
\* nothing is thrown.  lost/afterClose count the undelivered attempts.
resWrite(c, ev) ==
  IF c.state = "open" THEN [c EXCEPT !.log = Append(@, ev)]
  ELSE IF c.state = "closed" THEN [c EXCEPT !.afterClose = @ + 1]
  ELSE [c EXCEPT !.lost = @ + 1]

broadcast(subs, L, channel, payload) ==
  IF channel \notin DOMAIN subs THEN L
  ELSE [l \in DOMAIN L |->
          IF l \in subs[channel] THEN resWrite(L[l], payload) ELSE L[l]]

(* ------------------------------ events -------------------------------- *)
\* (IdleReq below: body and refineGot record what readRequestBody and the
\* refinement call gave, prior the listeners registered when the request
\* arrived, usageAtStart the counters at that time and reported the usage
\* its translation calls reported, passParam, repeats and list the query
\* parameters as sent, finished the branches in the order they completed.)
\* One record shape for everything written to a listener; `req` and `late`
\* are bookkeeping: the submit request an event was published for, and
\* whether that request's HTTP response had already been sent.
\* a keep-alive comment in the place of the ready event
ReadyEventAsPing(channel) ==
  [type |-> "ping", channel |-> <<>>, req |-> 0, room |-> <<>>,
   language |-> <<>>, transcript |-> <<>>, translation |-> <<>>,
   audioBase64 |-> Null, late |-> FALSE]

ReadyEvent(channel) ==
  [type |-> "ready", channel |-> channel, req |-> 0, room |-> <<>>,
   language |-> <<>>, transcript |-> <<>>, translation |-> <<>>,
   audioBase64 |-> Null, late |-> FALSE]

PingComment ==
  [type |-> "ping", channel |-> <<>>, req |-> 0, room |-> <<>>,
   language |-> <<>>, transcript |-> <<>>, translation |-> <<>>,
   audioBase64 |-> Null, late |-> FALSE]

TranslationEvent(i, room, language, transcript, translation, audioBase64, late) ==
  [type |-> "translation", channel |-> <<>>, req |-> i, room |-> room,
   language |-> language, transcript |-> transcript,
   translation |-> translation, audioBase64 |-> audioBase64, late |-> late]

(* --------------------------- usage counters --------------------------- *)
ZeroUsage == [prompt_tokens |-> 0, completion_tokens |-> 0, total_tokens |-> 0]

\* the counters overwritten with what the reply reports
addUsageReplacing(u, reply) ==
  IF ~reply.usage.present THEN u
  ELSE [prompt_tokens |-> reply.usage.prompt_tokens,
        completion_tokens |-> reply.usage.completion_tokens,
        total_tokens |-> reply.usage.total_tokens]

\* the reply's usage left out
addUsageDropped(u, reply) == u

\* the `if (completion?.usage) { ... += ... || 0 }` block of tryTranslate;
\* a reply without a usage object has usage.present = FALSE, a missing field is 0
addUsage(u, reply) ==
  IF ~reply.usage.present THEN u
  ELSE [prompt_tokens |-> u.prompt_tokens + reply.usage.prompt_tokens,
        completion_tokens |-> u.completion_tokens + reply.usage.completion_tokens,
        total_tokens |-> u.total_tokens + reply.usage.total_tokens]

\* resetSessionUsage (lines 716-718) assigns this; no handler and no route
\* calls it, so no action of the model does
resetSessionUsage == ZeroUsage

\* a usage object that reports nothing, the usage a reply reports, and the
\* sum of two usage records (bookkeeping for the request records)
ReportedIn(reply) ==
  IF reply.ok /\ reply.usage.present
    THEN [prompt_tokens |-> reply.usage.prompt_tokens,
          completion_tokens |-> reply.usage.completion_tokens,
          total_tokens |-> reply.usage.total_tokens]
    ELSE ZeroUsage

UsagePlus(a, b) ==
  [prompt_tokens |-> a.prompt_tokens + b.prompt_tokens,
   completion_tokens |-> a.completion_tokens + b.completion_tokens,
   total_tokens |-> a.total_tokens + b.total_tokens]

(* ------------------------------- cost --------------------------------- *)
Gpt4oMini == "gpt-4o-mini"
Gpt4oMiniTts == "gpt-4o-mini-tts"

\* OPENAI_PRICING, USD per 1K tokens, written in millionths of a dollar:
\* 0.00015 is 150, 0.0006 is 600, 0.0002 is 200
OPENAI_PRICING ==
  [m \in {Gpt4oMini, Gpt4oMiniTts} |->
     IF m = Gpt4oMini THEN [input |-> 150, output |-> 600]
     ELSE [input |-> 200, output |-> 200]]

\* OPENAI_PRICING[OPENAI_TRANSLATE_MODEL] || { input: 0, output: 0 }
translatePricing(model) ==
  IF model \in DOMAIN OPENAI_PRICING THEN OPENAI_PRICING[model]
  ELSE [input |-> 0, output |-> 0]

\* (prompt_tokens / 1000) * input + (completion_tokens / 1000) * output, in
\* thousandths of a millionth of a dollar (so that it is an integer)
costTimes1000(usage, model) ==
  usage.prompt_tokens * translatePricing(model).input +
  usage.completion_tokens * translatePricing(model).output

\* the truncation of the amount to whole millionths
toFixed6Truncating(x1000) == {x1000 \div 1000}

\* Number(cost.toFixed(6)): the amount in whole millionths of a dollar that
\* is nearest to cost.  When cost lies exactly half way between two of them
\* the binary value of the double decides, upwards for some token counts
\* and downwards for others: both are kept.
toFixed6(x1000) ==
  {n \in {x1000 \div 1000, x1000 \div 1000 + 1} :
     1000 * n - x1000 <= 500 /\ x1000 - 1000 * n <= 500}

\* the amounts estimateCost() can return for the counters `usage`
estimateCost(usage, model) == toFixed6(costTimes1000(usage, model))

(* --------------------------- request records -------------------------- *)
IdleReq ==
  [pc |-> "idle", status |-> 0, responses |-> 0, passed |-> FALSE,
   room |-> <<>>, passcode |-> <<>>, existing |-> <<>>,
   langs |-> <<>>, mode |-> <<>>,
   raw |-> <<>>, transcript |-> <<>>, br |-> <<>>, results |-> <<>>,
   usage |-> ZeroUsage, cost |-> 0,
   nTranscribe |-> 0, nRefine |-> 0, prior |-> {},
   usageAtStart |-> ZeroUsage, reported |-> ZeroUsage,
   body |-> "none", refineGot |-> "none", passParam |-> <<>>,
   repeats |-> <<>>, list |-> <<>>, finished |-> <<>>]

NoListener ==
  [state |-> "none", status |-> 0, channel |-> <<>>, roomParam |-> <<>>,
   passcode |-> <<>>, namedBound |-> <<>>,
   log |-> <<>>, timer |-> FALSE, pings |-> 0, lost |-> 0,
   afterClose |-> 0, cleanups |-> 0]

\* respondJson(res, status, ...): the first response decides the status
respondJson(r, status) ==
  [r EXCEPT !.status = IF @ = 0 THEN status ELSE @, !.responses = @ + 1]

\* a mismatch also when nothing is stored
passcodeMismatchUnbound(stored, passcode) == stored # passcode

\* a comparison that looks at the lengths only
passcodeMismatchByLength(stored, passcode) ==
  stored # <<>> /\ Len(stored) # Len(passcode)

\* the guard of `if (existing && existing !== passcode)` (line 596) and of
\* `if (requiredPass && requiredPass !== passcode)` (line 538)
passcodeMismatch(stored, passcode) == stored # <<>> /\ stored # passcode

\* const room = url.searchParams.get('room') || 'default'   (submit)
submitRoom(roomParam) == IF roomParam = <<>> THEN DefaultRoom ELSE roomParam

\* const room = (url.searchParams.get('room') || '').trim() || 'default'
subscribeRoom(roomParam) ==
  IF Trim(roomParam) = <<>> THEN DefaultRoom ELSE Trim(roomParam)

\* the room a request names: its room parameter as sent, 'default' when it
\* sends none (bookkeeping for the listener records)
NamedRoom(roomParam) == IF roomParam = <<>> THEN DefaultRoom ELSE roomParam

\* audio for every mode but 'text'
wantsAudioUnlessText(outputMode) == outputMode # TextMode

wantsAudio(outputMode) == outputMode = AudioMode \/ outputMode = BothMode

\* listeners currently in some channel's set
Registered(subs) == UNION {subs[c] : c \in DOMAIN subs}

(* --------------------------- submit handler --------------------------- *)
\* handleTranslateRequest from its entry to its first suspension,
\* `await readRequestBody(req)`
SubmitEntry(i, roomParam, passParam, repeats, list, modeParam) ==
  LET targetLanguages == parseTargetLanguages(repeats, list)
      outputMode == IF modeParam = <<>> THEN TextMode ELSE modeParam
      room == submitRoom(roomParam)
      passcode == Trim(passParam)
      existing == MapGet(roomPasscodes, room)
      r0 == [reqs[i] EXCEPT !.room = room, !.passcode = passcode,
                            !.existing = existing, !.langs = targetLanguages,
                            !.mode = outputMode,
                            !.prior = Registered(subscribers),
                            !.usageAtStart = sessionUsage,
                            !.passParam = passParam,
                            !.repeats = repeats, !.list = list]
  IN  /\ reqs[i].pc = "idle"
      /\ (IF i = 1 THEN TRUE ELSE reqs[i - 1].pc # "idle")
      /\ IF ~apiKey
            THEN /\ reqs' = [reqs EXCEPT ![i] =
                              [respondJson(reqs[i], 500) EXCEPT !.pc = "done"]]
                 /\ UNCHANGED roomPasscodes
            ELSE IF passcode = <<>>
            THEN /\ reqs' = [reqs EXCEPT ![i] =
                              [respondJson(r0, 400) EXCEPT !.pc = "done"]]
                 /\ UNCHANGED roomPasscodes
            ELSE IF passcodeMismatch(existing, passcode)
            THEN /\ reqs' = [reqs EXCEPT ![i] =
                              [respondJson(r0, 403) EXCEPT !.pc = "done"]]
                 /\ UNCHANGED roomPasscodes
            ELSE /\ reqs' = [reqs EXCEPT ![i] =
                              [r0 EXCEPT !.pc = "body", !.passed = TRUE]]
                 /\ roomPasscodes' = MapSet(roomPasscodes, room, passcode)
      /\ UNCHANGED <<apiKey, translateModel, subscribers, sessionUsage, lis>>

\* readRequestBody resolves (or the request stream errors), then the
\* empty-audio check and the call of transcribeAudio up to its fetch
BodyRead(i, body) ==
  /\ reqs[i].pc = "body"
  /\ reqs' = [reqs EXCEPT ![i] =
       IF body = "error"
         THEN [respondJson(@, 500) EXCEPT !.pc = "done", !.body = body]
       ELSE IF body = "empty"
         THEN [respondJson(@, 400) EXCEPT !.pc = "done", !.body = body]
       ELSE [@ EXCEPT !.pc = "transcribe", !.nTranscribe = @ + 1, !.body = body]]
  /\ UNCHANGED <<apiKey, translateModel, roomPasscodes, subscribers, sessionUsage, lis>>

\* the early return of refineTranscript (line 392)
refineSkipped(raw) == raw = Null \/ raw = <<>> \/ Len(Trim(raw)) < 2

NewBranch ==
  [pc |-> "t1", nTry |-> 1, tries |-> <<>>, nTts |-> 0,
   translation |-> <<>>, audioBase64 |-> Null]

\* `targetLanguages.map(async (language) => ...)`: every branch runs to the
\* fetch of its first tryTranslate before Promise.all is awaited
startFanout(r, transcript) ==
  [r EXCEPT !.transcript = transcript, !.pc = "fanout",
            !.br = [k \in DOMAIN r.langs |-> NewBranch]]

\* transcribeAudio resolves or throws; then refineTranscript up to its fetch,
\* or, on its early return, on to the fan-out
TranscribeReturn(i, reply) ==
  /\ reqs[i].pc = "transcribe"
  /\ reqs' = [reqs EXCEPT ![i] =
       IF ~reply.ok THEN [respondJson(@, 500) EXCEPT !.pc = "done"]
       ELSE IF refineSkipped(reply.text)
         THEN startFanout([@ EXCEPT !.raw = reply.text],
                          IF reply.text = Null THEN <<>> ELSE reply.text)
       ELSE [@ EXCEPT !.raw = reply.text, !.pc = "refine", !.nRefine = @ + 1]]
  /\ UNCHANGED <<apiKey, translateModel, roomPasscodes, subscribers, sessionUsage, lis>>

\* completion.choices?.[0]?.message?.content?.trim() || fallback
contentOr(reply, fallback) ==
  IF reply.content = Null \/ Trim(reply.content) = <<>> THEN fallback
  ELSE Trim(reply.content)

\* refineTranscript's fetch resolves or throws, then the fan-out starts
RefineReturn(i, reply) ==
  /\ reqs[i].pc = "refine"
  /\ reqs' = [reqs EXCEPT ![i] =
       IF ~reply.ok
         THEN [respondJson(@, 500) EXCEPT !.pc = "done", !.refineGot = "error"]
       ELSE startFanout([@ EXCEPT !.refineGot =
                            IF contentOr(reply, <<>>) = <<>> THEN "empty" ELSE "text"],
                        contentOr(reply, @.raw))]
  /\ UNCHANGED <<apiKey, translateModel, roomPasscodes, subscribers, sessionUsage, lis>>

Finished(b) == b.pc \in {"ok", "failed"}

\* Promise.all settles: it resolves when every branch has resolved, and the
\* handler sends the 200 aggregate with the usage snapshot and its cost
settle(r, usageNow, cost) ==
  IF \A k \in DOMAIN r.br : r.br[k].pc = "ok"
    THEN [respondJson(r, 200) EXCEPT
            !.pc = "done",
            !.results = [k \in DOMAIN r.br |->
                          [language |-> r.langs[k],
                           translation |-> r.br[k].translation,
                           audioBase64 |-> r.br[k].audioBase64]],
            !.usage = usageNow, !.cost = cost]
  ELSE IF \A k \in DOMAIN r.br : Finished(r.br[k])
    THEN [r EXCEPT !.pc = "done"]
  ELSE r

\* an error response for every branch that throws
branchFailsEachResponds(r, k) ==
  settle(respondJson([r EXCEPT !.br[k].pc = "failed"], 500), ZeroUsage, 0)

\* a branch throws: Promise.all rejects on the first rejection and the catch
\* block answers 500; the other branches are not cancelled
branchFails(r, k) ==
  LET r1 == [r EXCEPT !.br[k].pc = "failed"]
  IN  settle(IF r1.status = 0 THEN respondJson(r1, 500) ELSE r1, ZeroUsage, 0)

\* the tail of a branch (lines 622-632): the publish, then the branch resolves
publishOf(i, r, k) ==
  TranslationEvent(i, r.room, r.langs[k], r.transcript,
                   r.br[k].translation, r.br[k].audioBase64, r.status # 0)

\* a retry after every empty result, the second one included
retryWhileEmpty(result, attempt) == result = <<>>

\* `if (!result)` after the first tryTranslate only (lines 472-477)
needsRetry(result, attempt) == result = <<>> /\ attempt = "t1"

\* a tryTranslate fetch of branch k resolves or throws; then the retry, the
\* call of synthesizeSpeech, or the publish and the end of the branch
TranslateReturn(i, k, reply) ==
  LET r == reqs[i]
      b == r.br[k]
      usageNow == addUsage(sessionUsage, reply)
      result == contentOr(reply, <<>>)
      tried == [b EXCEPT !.tries = Append(@, result)]
      counted == [r EXCEPT !.reported = UsagePlus(@, ReportedIn(reply))]
      got == [counted EXCEPT !.br[k] = [tried EXCEPT !.translation = result]]
  IN  /\ r.pc = "fanout"
      /\ k \in DOMAIN r.br
      /\ b.pc \in {"t1", "t2"}
      /\ IF ~reply.ok
            THEN /\ reqs' = [reqs EXCEPT ![i] = branchFails(r, k)]
                 /\ UNCHANGED <<sessionUsage, lis>>
            ELSE IF needsRetry(result, b.pc)
            THEN /\ reqs' = [reqs EXCEPT ![i] =
                              [counted EXCEPT !.br[k] =
                                 [tried EXCEPT !.pc = "t2", !.nTry = @ + 1]]]
                 /\ sessionUsage' = usageNow
                 /\ UNCHANGED lis
            ELSE IF wantsAudio(r.mode)
            THEN /\ reqs' = [reqs EXCEPT ![i] =
                              [got EXCEPT !.br[k].pc = "tts", !.br[k].nTts = @ + 1]]
                 /\ sessionUsage' = usageNow
                 /\ UNCHANGED lis
            ELSE /\ lis' = broadcast(subscribers, lis,
                                     channelName(r.room, r.langs[k]),
                                     publishOf(i, got, k))
                 /\ \E cost \in estimateCost(usageNow, translateModel) :
                      reqs' = [reqs EXCEPT ![i] =
                                settle([got EXCEPT !.br[k].pc = "ok",
                                                   !.finished = Append(@, k)],
                                       usageNow, cost)]
                 /\ sessionUsage' = usageNow
      /\ UNCHANGED <<apiKey, translateModel, roomPasscodes, subscribers>>

\* synthesizeSpeech's fetch of branch k resolves or throws; the ArrayBuffer it
\* resolves to has no usage property, so the counters stay as they are
SynthReturn(i, k, reply) ==
  LET r == reqs[i]
      got == [r EXCEPT !.br[k].audioBase64 = Base64(reply.bytes)]
  IN  /\ r.pc = "fanout"
      /\ k \in DOMAIN r.br
      /\ r.br[k].pc = "tts"
      /\ IF ~reply.ok
            THEN /\ reqs' = [reqs EXCEPT ![i] = branchFails(r, k)]
                 /\ UNCHANGED lis
            ELSE /\ lis' = broadcast(subscribers, lis,
                                     channelName(r.room, r.langs[k]),
                                     publishOf(i, got, k))
                 /\ \E cost \in estimateCost(sessionUsage, translateModel) :
                      reqs' = [reqs EXCEPT ![i] =
                                settle([got EXCEPT !.br[k].pc = "ok",
                                                   !.finished = Append(@, k)],
                                       sessionUsage, cost)]
      /\ UNCHANGED <<apiKey, translateModel, roomPasscodes, subscribers, sessionUsage>>

(* -------------------------- subscribe handler ------------------------- *)
\* handleSubscribeRequest, which runs to its end without suspending
Subscribe(l, channelParam, roomParam, passParam) ==
  LET channel == channelParam
      room == subscribeRoom(roomParam)
      passcode == Trim(passParam)
      requiredPass == MapGet(roomPasscodes, room)
      c0 == [lis[l] EXCEPT !.channel = channel, !.roomParam = roomParam,
                           !.passcode = passcode,
                           !.namedBound = MapGet(roomPasscodes, NamedRoom(roomParam))]
  IN  /\ lis[l].state = "none"
      /\ (IF l = 1 THEN TRUE ELSE lis[l - 1].state # "none")
      /\ IF channel = <<>>
            THEN /\ lis' = [lis EXCEPT ![l] =
                             [c0 EXCEPT !.state = "rejected", !.status = 400]]
                 /\ UNCHANGED subscribers
            ELSE IF passcodeMismatch(requiredPass, passcode)
            THEN /\ lis' = [lis EXCEPT ![l] =
                             [c0 EXCEPT !.state = "rejected", !.status = 403]]
                 /\ UNCHANGED subscribers
            ELSE /\ subscribers' = addSubscriber(subscribers, channel, l)
                 /\ lis' = [lis EXCEPT ![l] =
                             [resWrite([c0 EXCEPT !.state = "open", !.status = 200],
                                       ReadyEvent(channel))
                                EXCEPT !.timer = TRUE]]
      /\ UNCHANGED <<apiKey, translateModel, roomPasscodes, sessionUsage, reqs>>

\* the setInterval callback (lines 554-556)
KeepAliveTick(l) ==
  /\ lis[l].timer
  /\ lis[l].pings < MaxPings
  /\ lis' = [lis EXCEPT ![l] = [resWrite(@, PingComment) EXCEPT !.pings = @ + 1]]
  /\ UNCHANGED <<apiKey, translateModel, roomPasscodes, subscribers, sessionUsage, reqs>>

\* the listener's socket is destroyed (reset, timeout, client gone); Node
\* emits 'close' on the request in a later turn of the event loop
SocketDestroyed(l) ==
  /\ lis[l].state = "open"
  /\ lis' = [lis EXCEPT ![l].state = "broken"]
  /\ UNCHANGED <<apiKey, translateModel, roomPasscodes, subscribers, sessionUsage, reqs>>

\* the timer left running
timerKept(c) == c

\* the req.on('close') callback (lines 558-561); Node emits 'close' once
clearIntervalOf(c) == [c EXCEPT !.timer = FALSE]

RequestClose(l) ==
  /\ lis[l].state \in {"open", "broken"}
  /\ lis' = [lis EXCEPT ![l] =
              [clearIntervalOf(@) EXCEPT !.state = "closed", !.cleanups = @ + 1]]
  /\ subscribers' = removeSubscriber(subscribers, lis[l].channel, l)
  /\ UNCHANGED <<apiKey, translateModel, roomPasscodes, sessionUsage, reqs>>

(* ------------------------- next-state relation ------------------------ *)
\* w: what the clients send and what the upstream services answer
NextIn(w) ==
  \/ \E i \in Reqs, room \in w.rooms, pass \in w.passcodes,
        lp \in w.langParams, m \in w.modes :
        SubmitEntry(i, room, pass, lp[1], lp[2], m)
  \/ \E i \in Reqs, body \in w.bodies : BodyRead(i, body)
  \/ \E i \in Reqs, reply \in w.transcripts : TranscribeReturn(i, reply)
  \/ \E i \in Reqs, reply \in w.refines : RefineReturn(i, reply)
  \/ \E i \in Reqs, reply \in w.translates :
        \E k \in DOMAIN reqs[i].br : TranslateReturn(i, k, reply)
  \/ \E i \in Reqs, reply \in w.speeches :
        \E k \in DOMAIN reqs[i].br : SynthReturn(i, k, reply)
  \/ \E l \in Lis, ch \in w.channels, room \in w.subRooms,
        pass \in w.subPasscodes : Subscribe(l, ch, room, pass)
  \/ \E l \in Lis : KeepAliveTick(l)
  \/ \E l \in Lis : SocketDestroyed(l)
  \/ \E l \in Lis : RequestClose(l)

(* ------------------------------ worlds -------------------------------- *)
\* a channel parameter as a client writes it: room, colon, language
KeyOf(room, language) == room \o <<":">> \o language
RoomR == <<"r">>
RoomRPadded == <<"r", " ">>
PassA == <<"a">>
PassB == <<"b">>
Hola == <<"h","o","l","a">>
Blank == <<" ">>

Reply(ok, text) == [ok |-> ok, text |-> text]
Completion(ok, content, usage) == [ok |-> ok, content |-> content, usage |-> usage]
Speech(ok, bytes) == [ok |-> ok, bytes |-> bytes]
NoUsage ==
  [present |-> FALSE, prompt_tokens |-> 0, completion_tokens |-> 0, total_tokens |-> 0]
SomeUsage ==
  [present |-> TRUE, prompt_tokens |-> 3, completion_tokens |-> 2, total_tokens |-> 5]

InitWith(w) ==
  /\ apiKey \in w.apiKeys
  /\ translateModel \in w.models
  /\ roomPasscodes = EmptyMap
  /\ subscribers = EmptyMap
  /\ sessionUsage = ZeroUsage
  /\ reqs = [i \in 1..w.submits |-> IdleReq]
  /\ lis = [l \in 1..w.listeners |-> NoListener]

\* rooms and passcodes: two clients of one room, whitespace in the parameters
AuthWorld ==
  [submits |-> AuthSubmits, listeners |-> AuthListeners,
   apiKeys |-> {TRUE},
   models |-> {Gpt4oMini},
   rooms |-> {RoomR, RoomRPadded},
   passcodes |-> {PassA, PassB, <<>>},
   langParams |-> {<< <<>>, <<>> >>},
   modes |-> {AudioMode},
   bodies |-> {"data"},
   transcripts |-> {Reply(TRUE, Hola)},
   refines |-> {Completion(TRUE, Hola, NoUsage)},
   translates |-> {Completion(TRUE, Hola, SomeUsage)},
   speeches |-> {Speech(TRUE, <<77>>)},
   channels |-> {KeyOf(RoomR, english), <<>>},
   subRooms |-> {RoomR, RoomRPadded},
   subPasscodes |-> {PassA, PassB, <<>>}]

\* delivery: one room, two labels of one channel, listeners on that channel,
\* on another language of the room and on a channel of another room
RoomQ == <<"q">>
Comma == <<",">>
HolaPadded == <<" ">> \o Hola

DeliveryWorld ==
  [submits |-> DeliverySubmits, listeners |-> DeliveryListeners,
   apiKeys |-> {TRUE},
   models |-> {Gpt4oMini},
   rooms |-> {RoomR},
   passcodes |-> {PassA},
   langParams |-> { << <<English>>, Blank \o english \o Comma \o English >> },
   modes |-> {BothMode},
   bodies |-> {"data"},
   transcripts |-> {Reply(TRUE, Hola)},
   refines |-> {Completion(TRUE, Hola, NoUsage)},
   translates |-> {Completion(TRUE, HolaPadded, SomeUsage)},
   speeches |-> {Speech(TRUE, <<77>>)},
   channels |-> {KeyOf(RoomR, english), KeyOf(RoomR, cantonese),
                 KeyOf(RoomQ, english)},
   subRooms |-> {RoomR},
   subPasscodes |-> {PassA}]

InitDelivery == InitWith(DeliveryWorld)
NextDelivery == NextIn(DeliveryWorld)
SpecDelivery == InitDelivery /\ [][NextDelivery]_vars

\* the retry of an empty translation and the failure of a branch
RetryWorld ==
  [submits |-> RetrySubmits, listeners |-> RetryListeners,
   apiKeys |-> {TRUE},
   models |-> {Gpt4oMini},
   rooms |-> {RoomR},
   passcodes |-> {PassA},
   langParams |-> { << <<>>, <<>> >>,
                    << <<>>, Blank \o Cantonese \o Comma \o Comma \o English >> },
   modes |-> {<<>>, BothMode},
   bodies |-> {"data"},
   transcripts |-> {Reply(TRUE, Hola)},
   refines |-> {Completion(TRUE, Hola, NoUsage)},
   translates |-> {Completion(FALSE, Null, NoUsage),
                   Completion(TRUE, Blank, NoUsage),
                   Completion(TRUE, HolaPadded, SomeUsage)},
   speeches |-> {Speech(TRUE, <<77>>), Speech(FALSE, <<>>)},
   channels |-> {KeyOf(RoomR, english)},
   subRooms |-> {RoomR},
   subPasscodes |-> {PassA}]

\* the steps of one submit before the fan-out: the credential, the passcode,
\* the audio payload, the transcript and its refinement, the output mode
LoudMode == <<"A","U","D","I","O">>
Short == <<"h">>
Refined == <<"H","o","l","a",".">>

PipelineWorld ==
  [submits |-> PipelineSubmits, listeners |-> PipelineListeners,
   apiKeys |-> {TRUE, FALSE},
   models |-> {Gpt4oMini},
   rooms |-> {RoomR},
   passcodes |-> {PassA, Blank},
   langParams |-> { << <<>>, <<>> >>, << <<English>>, Cantonese >> },
   modes |-> {<<>>, AudioMode, BothMode, LoudMode},
   bodies |-> {"data", "empty", "error"},
   transcripts |-> {Reply(TRUE, Hola), Reply(TRUE, Short), Reply(FALSE, Null)},
   refines |-> {Completion(FALSE, Null, NoUsage),
                Completion(TRUE, Blank, NoUsage),
                Completion(TRUE, Null, NoUsage),
                Completion(TRUE, Blank \o Refined, SomeUsage)},
   translates |-> {Completion(TRUE, Hola, SomeUsage)},
   speeches |-> {Speech(TRUE, <<77>>), Speech(TRUE, <<>>)},
   channels |-> {KeyOf(RoomR, english)},
   subRooms |-> {RoomR},
   subPasscodes |-> {PassA}]

InitPipeline == InitWith(PipelineWorld)
NextPipeline == NextIn(PipelineWorld)
SpecPipeline == InitPipeline /\ [][NextPipeline]_vars

\* two concurrent submits whose translation calls report usage, the first
\* attempt of a branch sometimes empty; the listener is on another room
SmallUsage ==
  [present |-> TRUE, prompt_tokens |-> 1, completion_tokens |-> 0, total_tokens |-> 1]

UsageWorld ==
  [submits |-> UsageSubmits, listeners |-> UsageListeners,
   apiKeys |-> {TRUE},
   models |-> {Gpt4oMini},
   rooms |-> {RoomR},
   passcodes |-> {PassA},
   langParams |-> { << <<>>, <<>> >> },
   modes |-> {AudioMode},
   bodies |-> {"data"},
   transcripts |-> {Reply(TRUE, Hola)},
   refines |-> {Completion(TRUE, Refined, SomeUsage)},
   translates |-> {Completion(TRUE, Blank, SmallUsage),
                   Completion(TRUE, Hola, SomeUsage)},
   speeches |-> {Speech(TRUE, <<77>>)},
   channels |-> {KeyOf(RoomQ, english)},
   subRooms |-> {RoomQ},
   subPasscodes |-> {<<>>}]

InitUsage == InitWith(UsageWorld)
NextUsage == NextIn(UsageWorld)
SpecUsage == InitUsage /\ [][NextUsage]_vars

\* the cost estimate: the three kinds of configured model and token counts
\* whose cost is a whole number of millionths, is not, and lies half way
OtherModel == "some-other-model"
RoundUsage ==
  [present |-> TRUE, prompt_tokens |-> 1000, completion_tokens |-> 1000,
   total_tokens |-> 2000]
HalfUsage ==
  [present |-> TRUE, prompt_tokens |-> 6, completion_tokens |-> 1, total_tokens |-> 7]

CostWorld ==
  [submits |-> CostSubmits, listeners |-> CostListeners,
   apiKeys |-> {TRUE},
   models |-> {Gpt4oMini, Gpt4oMiniTts, OtherModel},
   rooms |-> {RoomR},
   passcodes |-> {PassA},
   langParams |-> { << <<>>, <<>> >>, << <<English>>, Cantonese >> },
   modes |-> {<<>>, AudioMode},
   bodies |-> {"data"},
   transcripts |-> {Reply(TRUE, Hola)},
   refines |-> {Completion(TRUE, Refined, NoUsage)},
   translates |-> {Completion(TRUE, Hola, RoundUsage),
                   Completion(TRUE, Hola, SomeUsage),
                   Completion(TRUE, Hola, HalfUsage),
                   Completion(TRUE, Blank, SmallUsage)},
   speeches |-> {Speech(TRUE, <<77>>)},
   channels |-> {KeyOf(RoomQ, english)},
   subRooms |-> {RoomQ},
   subPasscodes |-> {<<>>}]

InitCost == InitWith(CostWorld)
NextCost == NextIn(CostWorld)
SpecCost == InitCost /\ [][NextCost]_vars

\* every way a submit can end: no credential, no passcode, a body that is
\* empty or breaks off, each upstream call failing, one to three branches
ThreeLangs == Cantonese \o Comma \o English \o Comma \o mandarin

ResponseWorld ==
  [submits |-> ResponseSubmits, listeners |-> ResponseListeners,
   apiKeys |-> {TRUE, FALSE},
   models |-> {Gpt4oMini},
   rooms |-> {RoomR},
   passcodes |-> {PassA, Blank},
   langParams |-> { << <<>>, <<>> >>, << <<>>, ThreeLangs >> },
   modes |-> {AudioMode},
   bodies |-> {"data", "empty", "error"},
   transcripts |-> {Reply(TRUE, Hola), Reply(FALSE, Null)},
   refines |-> {Completion(TRUE, Refined, NoUsage), Completion(FALSE, Null, NoUsage)},
   translates |-> {Completion(FALSE, Null, NoUsage),
                   Completion(TRUE, Blank, NoUsage),
                   Completion(TRUE, Hola, SomeUsage)},
   speeches |-> {Speech(TRUE, <<77>>), Speech(FALSE, <<>>)},
   channels |-> {KeyOf(RoomQ, english)},
   subRooms |-> {RoomQ},
   subPasscodes |-> {<<>>}]

InitResponse == InitWith(ResponseWorld)
NextResponse == NextIn(ResponseWorld)
SpecResponse == InitResponse /\ [][NextResponse]_vars

\* the pending await of submit i returns: the body stream ends or errors, or
\* the upstream call answers with success or failure
AwaitReturns(w, i) ==
  \/ \E body \in w.bodies : BodyRead(i, body)
  \/ \E reply \in w.transcripts : TranscribeReturn(i, reply)
  \/ \E reply \in w.refines : RefineReturn(i, reply)
  \/ \E reply \in w.translates :
        \E k \in DOMAIN reqs[i].br : TranslateReturn(i, k, reply)
  \/ \E reply \in w.speeches :
        \E k \in DOMAIN reqs[i].br : SynthReturn(i, k, reply)

\* every upstream call eventually returns
LiveResponse ==
  SpecResponse /\ \A i \in 1..ResponseSubmits : WF_vars(AwaitReturns(ResponseWorld, i))

\* a submit that binds its room and then fails, for an empty body or a failed
\* transcription, followed by a submit or a subscribe with another passcode
BindWorld ==
  [submits |-> BindSubmits, listeners |-> BindListeners,
   apiKeys |-> {TRUE},
   models |-> {Gpt4oMini},
   rooms |-> {RoomR, RoomRPadded},
   passcodes |-> {PassA, PassB},
   langParams |-> { << <<>>, <<>> >> },
   modes |-> {AudioMode},
   bodies |-> {"data", "empty"},
   transcripts |-> {Reply(TRUE, Hola), Reply(FALSE, Null)},
   refines |-> {Completion(TRUE, Hola, NoUsage)},
   translates |-> {Completion(TRUE, Hola, SomeUsage)},
   speeches |-> {Speech(TRUE, <<77>>)},
   channels |-> {KeyOf(RoomR, english)},
   subRooms |-> {RoomR, RoomRPadded},
   subPasscodes |-> {PassA, PassB, <<>>}]

InitBind == InitWith(BindWorld)
NextBind == NextIn(BindWorld)
SpecBind == InitBind /\ [][NextBind]_vars

\* labels that repeat across the two parameters, with blanks, an empty piece
\* and a language that has an instruction label:
\* targetLang=English&targetLang=mandarin,English&targetLangs= Cantonese,,English,mandarin
RepeatedLangs == <<English, mandarin \o Comma \o English>>
ListedLangs ==
  Blank \o Cantonese \o Comma \o Comma \o English \o Comma \o mandarin

OrderWorld ==
  [submits |-> OrderSubmits, listeners |-> OrderListeners,
   apiKeys |-> {TRUE},
   models |-> {Gpt4oMini},
   rooms |-> {RoomR},
   passcodes |-> {PassA},
   langParams |-> { << <<>>, <<>> >>, << RepeatedLangs, ListedLangs >> },
   modes |-> {<<>>, AudioMode},
   bodies |-> {"data"},
   transcripts |-> {Reply(TRUE, Hola)},
   refines |-> {Completion(TRUE, Refined, NoUsage)},
   translates |-> {Completion(TRUE, Blank, NoUsage),
                   Completion(TRUE, Hola, SomeUsage)},
   speeches |-> {Speech(TRUE, <<77>>)},
   channels |-> {KeyOf(RoomR, mandarin)},
   subRooms |-> {RoomR},
   subPasscodes |-> {PassA}]

InitOrder == InitWith(OrderWorld)
NextOrder == NextIn(OrderWorld)
SpecOrder == InitOrder /\ [][NextOrder]_vars

InitRetry == InitWith(RetryWorld)
NextRetry == NextIn(RetryWorld)
SpecRetry == InitRetry /\ [][NextRetry]_vars

Init == InitWith(AuthWorld)
Next == NextIn(AuthWorld)
Spec == Init /\ [][Next]_vars

(* ============================ the claims ============================== *)
\* channel is a key `room:language` of the room
IsChannelOf(channel, room) ==
  /\ Len(channel) > Len(room)
  /\ SubSeq(channel, 1, Len(room) + 1) = room \o <<":">>

EventsOf(l, i) ==
  {k \in DOMAIN lis[l].log :
     lis[l].log[k].type = "translation" /\ lis[l].log[k].req = i}

\* C1: once a submit has bound passcode P1 to room R, every later submit or
\* subscribe request that names R with another passcode (the empty one
\* included) is rejected, and every one that names R with P1 passes the
\* passcode check.  (existing / namedBound: the passcode bound to the room the
\* request names, when the request arrived.)
C1_BoundRoomRejectsOtherPasscodes ==
  /\ \A i \in Reqs :
        reqs[i].existing # <<>> =>
          /\ reqs[i].passcode # reqs[i].existing => reqs[i].status \in {400, 403}
          /\ reqs[i].passcode = reqs[i].existing => reqs[i].passed
  /\ \A l \in Lis :
        (lis[l].state # "none" /\ lis[l].namedBound # <<>>) =>
          /\ lis[l].passcode # lis[l].namedBound => lis[l].state = "rejected"
          /\ lis[l].passcode = lis[l].namedBound => lis[l].status # 403

\* C2: once room R has a bound passcode, a listener is registered on a channel
\* of R only if its subscribe request presented that passcode, and no other
\* listener is ever written a translation event published for R.
C2_OnlyPasscodeHoldersListen ==
  \A l \in Lis : \A R \in DOMAIN roomPasscodes :
    /\ (l \in Registered(subscribers) /\ IsChannelOf(lis[l].channel, R))
          => lis[l].passcode = roomPasscodes[R]
    /\ \A k \in DOMAIN lis[l].log :
          (lis[l].log[k].type = "translation" /\ lis[l].log[k].room = R)
            => lis[l].passcode = roomPasscodes[R]

\* C3: a submit to a room bound to a different passcode is answered 403 and
\* does nothing else: no upstream call, no published event, and the step
\* that rejects it leaves the usage counters, the room registry and every
\* listener as they were, whatever other requests are in flight.
C3_RejectedSubmitState ==
  \A i \in Reqs :
    /\ (reqs[i].existing # <<>> /\ reqs[i].passcode # <<>>
          /\ reqs[i].passcode # reqs[i].existing) => reqs[i].status = 403
    /\ reqs[i].status = 403 =>
          /\ reqs[i].pc = "done" /\ reqs[i].responses = 1
          /\ reqs[i].nTranscribe = 0 /\ reqs[i].nRefine = 0 /\ reqs[i].br = <<>>
          /\ \A l \in Lis : EventsOf(l, i) = {}

C3_RejectingStep ==
  \A i \in Reqs :
    (reqs[i].pc = "idle" /\ reqs'[i].status = 403) =>
      /\ sessionUsage' = sessionUsage
      /\ roomPasscodes' = roomPasscodes
      /\ subscribers' = subscribers
      /\ lis' = lis

C3_MismatchedSubmitHasNoEffect ==
  []C3_RejectedSubmitState /\ [][C3_RejectingStep]_vars

\* a submit was answered 403 while another submit to the same room was in
\* its fan-out and a listener was connected
C3_Witness ==
  \E i, j \in Reqs :
    /\ reqs[i].status = 403
    /\ reqs[j].pc = "fanout" /\ reqs[j].room = reqs[i].room
    /\ \E l \in Lis : lis[l].state = "open"

LowerLabels(langs) == {ToLowerCase(langs[k]) : k \in DOMAIN langs}

\* C4: a successful submit returns exactly one result per requested language
\* that is unique under case-insensitive comparison, and every requested
\* language is represented.
C4_OneResultPerCaseInsensitiveLanguage ==
  \A i \in Reqs :
    reqs[i].status = 200 =>
      /\ Len(reqs[i].results) = Cardinality(LowerLabels(reqs[i].langs))
      /\ \A k \in DOMAIN reqs[i].langs : \E n \in DOMAIN reqs[i].results :
            ToLowerCase(reqs[i].results[n].language) = ToLowerCase(reqs[i].langs[k])

\* C5: after a successful submit to room R, a listener that was registered
\* on channel R:lowercase(l) before the submit and is still connected has
\* been written exactly one translation event per requested label l of that
\* channel, with that label and the branch's translation; a listener on any
\* other channel has been written no event of this submit.
C5_PublishReachesExactlyTheChannel ==
  \A i \in Reqs : \A l \in Lis :
    /\ (reqs[i].status = 200 /\ l \in reqs[i].prior /\ lis[l].state = "open") =>
          \A k \in DOMAIN reqs[i].langs :
            KeyOf(reqs[i].room, ToLowerCase(reqs[i].langs[k])) = lis[l].channel =>
              /\ Cardinality({n \in EventsOf(l, i) :
                     lis[l].log[n].language = reqs[i].langs[k]}) = 1
              /\ \A n \in EventsOf(l, i) :
                    lis[l].log[n].language = reqs[i].langs[k] =>
                      lis[l].log[n].translation = reqs[i].results[k].translation
    /\ (\A k \in DOMAIN reqs[i].langs :
          KeyOf(reqs[i].room, ToLowerCase(reqs[i].langs[k])) # lis[l].channel) =>
          EventsOf(l, i) = {}

\* a successful submit with two labels of one channel: the listener
\* registered there beforehand got both events, and a listener registered on
\* another channel beforehand got none
C5_Witness ==
  \E i \in Reqs : \E l, m \in Lis :
    /\ reqs[i].status = 200
    /\ l \in reqs[i].prior /\ lis[l].state = "open"
    /\ lis[l].channel = KeyOf(reqs[i].room, english)
    /\ Cardinality(EventsOf(l, i)) = 2
    /\ m \in reqs[i].prior /\ lis[m].state = "open"
    /\ lis[m].channel # lis[l].channel
    /\ EventsOf(m, i) = {}

\* C6: in each branch the translation service is called once if the first
\* attempt returns non-empty text and twice if it returns the empty string,
\* never a third time; when the second attempt is empty too, the branch's
\* translation is the empty string.
C6_EmptyTranslationRetriedOnce ==
  \A i \in Reqs : \A k \in DOMAIN reqs[i].br :
    LET b == reqs[i].br[k]
    IN  /\ b.nTry <= 2
        /\ (Len(b.tries) >= 1 /\ b.tries[1] # <<>>) => b.nTry = 1
        /\ (Len(b.tries) >= 1 /\ b.tries[1] = <<>>) => b.nTry = 2
        /\ (Len(b.tries) = 2 /\ b.tries[2] = <<>> /\ b.pc \in {"tts", "ok"}) =>
              b.translation = <<>>
        /\ (Len(b.tries) = 2 /\ b.tries[2] = <<>> /\ reqs[i].status = 200) =>
              reqs[i].results[k].translation = <<>>

\* a submit was answered 200 with a branch whose two attempts were both empty
C6_Witness ==
  \E i \in Reqs : \E k \in DOMAIN reqs[i].br :
    /\ reqs[i].status = 200
    /\ reqs[i].br[k].tries = << <<>>, <<>> >>
    /\ reqs[i].br[k].nTry = 2
    /\ reqs[i].results[k].translation = <<>>

\* C7: no translation event of a submit is written to a listener after that
\* submit's HTTP response has been sent.
C7_NoPublishAfterResponse ==
  \A l \in Lis : \A n \in DOMAIN lis[l].log : ~lis[l].log[n].late

\* a publish of this step was written to listener l and the write failed
PublishFailedAt(l) == lis'[l].lost = lis[l].lost + 1 /\ reqs' # reqs

\* C8: when a publish writes an event and the write to one listener fails,
\* every other listener of the channel still receives the event and the
\* failing listener is removed from the channel's listener set.
C8_FailedWriteStep ==
  \A l \in Lis :
    PublishFailedAt(l) =>
      /\ l \notin Registered(subscribers')
      /\ \A m \in Lis :
            (m \in subscribers[lis[l].channel] /\ lis[m].state = "open") =>
              Len(lis'[m].log) = Len(lis[m].log) + 1

C8_FailedWriteRemovesListener == [][C8_FailedWriteStep]_vars

\* C9: the cleanup of a closed connection has run exactly once; from then on
\* the listener is in no channel's set, its keep-alive timer is cleared and
\* nothing is written to it; the cleanup runs for no connection that is not
\* closed.
C9_CloseCleansUpOnce ==
  \A l \in Lis :
    /\ lis[l].cleanups <= 1
    /\ lis[l].cleanups = 1 <=> lis[l].state = "closed"
    /\ lis[l].state = "closed" =>
          /\ l \notin Registered(subscribers)
          /\ ~lis[l].timer
          /\ lis[l].afterClose = 0

\* a listener closed before a publish to its channel: another listener of the
\* channel got the event, the closed one was not written to
C9_Witness ==
  \E i \in Reqs : \E l, m \in Lis :
    /\ lis[l].state = "closed" /\ l \in reqs[i].prior
    /\ lis[l].lost = 0 /\ EventsOf(l, i) = {}
    /\ lis[m].channel = lis[l].channel /\ EventsOf(m, i) # {}

\* channels and listeners to call removeSubscriber with: the registered ones,
\* a channel nobody subscribed to and a listener that never subscribed
ProbeChannels == DOMAIN subscribers \cup {KeyOf(RoomR, english), <<"x">>}
ProbeListeners == Lis \cup {0}

\* C10: removeSubscriber(channel, listener) called a second time, or for a
\* listener not in the channel's set, or for a channel without an entry,
\* leaves the channel map as it was; in every case all other listeners of
\* all channels stay registered.
C10_UnsubscribeIdempotent ==
  \A c \in ProbeChannels : \A l \in ProbeListeners :
    LET once == removeSubscriber(subscribers, c, l)
    IN  /\ removeSubscriber(once, c, l) = once
        /\ (c \notin DOMAIN subscribers \/ l \notin subscribers[c]) =>
              once = subscribers
        /\ \A d \in DOMAIN subscribers : \A m \in subscribers[d] :
              (d # c \/ m # l) => (d \in DOMAIN once /\ m \in once[d])

\* a listener has been unsubscribed by its close handler while another
\* listener is still registered on the same channel
C10_Witness ==
  \E l, m \in Lis :
    /\ lis[l].state = "closed" /\ lis[l].cleanups = 1
    /\ lis[l].channel \in DOMAIN subscribers
    /\ m \in subscribers[lis[l].channel]

\* C11: no channel entry has an empty listener set, and a publish (a step of
\* a submit request) neither creates nor removes a channel entry, also when
\* the channel it publishes to has no listener.
C11_NoEmptyEntry ==
  \A c \in DOMAIN subscribers : subscribers[c] # {}

C11_PublishKeepsMap ==
  reqs' # reqs => subscribers' = subscribers

C11_NoEmptyChannelEntry ==
  []C11_NoEmptyEntry /\ [][C11_PublishKeepsMap]_vars

\* a submit published twice to r:english after its only listener had closed:
\* the channel has no entry, while the other listener's channel still has one
C11_Witness ==
  \E i \in Reqs : \E l, m \in Lis :
    /\ reqs[i].status = 200 /\ Len(reqs[i].results) = 2
    /\ lis[l].channel = KeyOf(reqs[i].room, english)
    /\ lis[l].state = "closed" /\ l \in reqs[i].prior
    /\ EventsOf(l, i) = {}
    /\ lis[l].channel \notin DOMAIN subscribers
    /\ lis[m].state = "open" /\ lis[m].channel # lis[l].channel
    /\ subscribers[lis[m].channel] = {m}

\* C12: when speech synthesis fails in one branch of a submit and every
\* other branch has completed, the other branches' results are returned to
\* the caller: the request is answered with the aggregate that holds their
\* translations.
C12_SynthesisFailureConfined ==
  \A i \in Reqs : \A k \in DOMAIN reqs[i].br :
    (/\ reqs[i].br[k].pc = "failed" /\ reqs[i].br[k].nTts = 1
     /\ Len(reqs[i].br) > 1
     /\ \A j \in DOMAIN reqs[i].br : j # k => reqs[i].br[j].pc = "ok")
      => /\ reqs[i].status = 200
         /\ \A j \in DOMAIN reqs[i].br :
               j # k => reqs[i].results[j].translation = reqs[i].br[j].translation

\* C13: when the raw transcript is not empty and the refinement call has
\* failed or returned empty text, the request goes on to the fan-out and
\* translation is called with the raw transcript.
C13_RefinementFallsBack ==
  \A i \in Reqs :
    (reqs[i].raw # <<>> /\ reqs[i].refineGot \in {"error", "empty"}) =>
      /\ reqs[i].br # <<>>
      /\ reqs[i].transcript = reqs[i].raw
      /\ reqs[i].status # 500

WhitespaceOnly(s) == \A k \in DOMAIN s : IsSpace(s[k])

\* C14: on a server that has its credential, a submit whose passcode is empty
\* or whitespace only, or whose audio payload is empty, is answered 400, once,
\* and has called none of the upstream services and published nothing.
C14_InvalidSubmitIsRejected ==
  \A i \in Reqs :
    (/\ apiKey
     /\ \/ reqs[i].pc # "idle" /\ WhitespaceOnly(reqs[i].passParam)
        \/ reqs[i].body = "empty")
      => /\ reqs[i].status = 400 /\ reqs[i].pc = "done" /\ reqs[i].responses = 1
         /\ reqs[i].nTranscribe = 0 /\ reqs[i].nRefine = 0 /\ reqs[i].br = <<>>
         /\ \A l \in Lis : EventsOf(l, i) = {}

\* a submit with a passcode of one blank was answered 400 while a listener was
\* connected to the channel it would have published to
C14_Witness ==
  \E i \in Reqs : \E l \in Lis :
    /\ apiKey /\ reqs[i].passParam = Blank /\ reqs[i].status = 400
    /\ lis[l].state = "open"
    /\ lis[l].channel = KeyOf(RoomR, english)
    /\ Len(lis[l].log) = 1

AudioAsked(i) == reqs[i].mode \in {AudioMode, BothMode}

\* C15: in every result of a submit answered 200 and in every translation
\* event published for a submit, audioBase64 is not null exactly when the
\* request's output mode is 'audio' or 'both'; for every other mode the
\* synthesis service has not been called in any branch.
C15_AudioIffModeAsksForIt ==
  \A i \in Reqs :
    /\ reqs[i].status = 200 =>
          \A n \in DOMAIN reqs[i].results :
            (reqs[i].results[n].audioBase64 # Null) <=> AudioAsked(i)
    /\ \A l \in Lis : \A n \in EventsOf(l, i) :
          (lis[l].log[n].audioBase64 # Null) <=> AudioAsked(i)
    /\ ~AudioAsked(i) => \A k \in DOMAIN reqs[i].br : reqs[i].br[k].nTts = 0

\* a submit with outputMode=AUDIO was answered 200 with two results, and a
\* listener was written its event: no audio in either
C15_Witness ==
  \E i \in Reqs : \E l \in Lis :
    /\ reqs[i].mode = LoudMode /\ reqs[i].status = 200
    /\ Len(reqs[i].results) = 2
    /\ \A n \in DOMAIN reqs[i].results : reqs[i].results[n].audioBase64 = Null
    /\ \E n \in EventsOf(l, i) : lis[l].log[n].audioBase64 = Null

UsageAtLeast(a, b) ==
  /\ a.prompt_tokens >= b.prompt_tokens
  /\ a.completion_tokens >= b.completion_tokens
  /\ a.total_tokens >= b.total_tokens

\* C16: the three session counters are never negative, and no step of a
\* submit or subscribe request lowers any of them.
C16_CountersNonNegative == UsageAtLeast(sessionUsage, ZeroUsage)

C16_CountersNotLowered == UsageAtLeast(sessionUsage', sessionUsage)

C16_UsageNeverDecreases ==
  []C16_CountersNonNegative /\ [][C16_CountersNotLowered]_vars

\* both submits are answered, one of them after a retried translation, with
\* a subscribe request and a closed connection in between
C16_Witness ==
  /\ \A i \in Reqs : reqs[i].status = 200
  /\ \E i \in Reqs : \E k \in DOMAIN reqs[i].br : reqs[i].br[k].nTry = 2
  /\ \E l \in Lis : lis[l].state = "closed"
  /\ sessionUsage.total_tokens >= 7

\* C17: the usage snapshot in the response of a submit answered 200 is, in
\* each counter, at least the counters when the request arrived plus what
\* the translation calls of all its branches reported, both attempts of a
\* retried translation included, whatever other requests did meanwhile.
C17_SnapshotIncludesOwnUsage ==
  \A i \in Reqs :
    reqs[i].status = 200 =>
      UsageAtLeast(reqs[i].usage,
                   UsagePlus(reqs[i].usageAtStart, reqs[i].reported))

\* a submit whose translation was retried (1 + 5 tokens reported) was answered
\* while another submit was adding usage: its snapshot holds its own 6 tokens
\* and more
C17_Witness ==
  \E i, j \in Reqs :
    /\ i # j /\ reqs[i].status = 200 /\ reqs[j].status = 200
    /\ \E k \in DOMAIN reqs[i].br : reqs[i].br[k].nTry = 2
    /\ reqs[i].reported.total_tokens = 6
    /\ reqs[j].usageAtStart.total_tokens > 0
    /\ reqs[i].usage.total_tokens >
          reqs[i].usageAtStart.total_tokens + reqs[i].reported.total_tokens

\* prompt/1000 * inputRate + completion/1000 * outputRate for the configured
\* model, times 1000, in millionths of a dollar (0.00015 is 150)
FormulaTimes1000(usage) ==
  IF translateModel = Gpt4oMini
    THEN usage.prompt_tokens * 150 + usage.completion_tokens * 600
  ELSE IF translateModel = Gpt4oMiniTts
    THEN usage.prompt_tokens * 200 + usage.completion_tokens * 200
  ELSE 0

Near(cost, x1000) == 1000 * cost - x1000 <= 500 /\ x1000 - 1000 * cost <= 500

\* C18 as stated: every value estimateCost() can return, and the cost in
\* every 200 response, is exactly the formula's amount.
C18_CostEqualsFormula ==
  /\ \A v \in estimateCost(sessionUsage, translateModel) :
        1000 * v = FormulaTimes1000(sessionUsage)
  /\ \A i \in Reqs :
        reqs[i].status = 200 => 1000 * reqs[i].cost = FormulaTimes1000(reqs[i].usage)

\* C18: estimateCost() and the cost in every 200 response are the formula's
\* amount rounded to the nearest millionth of a dollar (six decimals); for
\* 1000 prompt and 1000 completion tokens on gpt-4o-mini that is 750
\* millionths, and for a model without an entry in the rate table it is 0.
C18_CostIsFormulaRoundedToSixDecimals ==
  /\ estimateCost(sessionUsage, translateModel) # {}
  /\ \A v \in estimateCost(sessionUsage, translateModel) :
        /\ Near(v, FormulaTimes1000(sessionUsage))
        /\ translateModel \notin {Gpt4oMini, Gpt4oMiniTts} => v = 0
        /\ (translateModel = Gpt4oMini /\ sessionUsage.prompt_tokens = 1000
              /\ sessionUsage.completion_tokens = 1000) => v = 750
  /\ \A i \in Reqs :
        reqs[i].status = 200 =>
          /\ Near(reqs[i].cost, FormulaTimes1000(reqs[i].usage))
          /\ translateModel \notin {Gpt4oMini, Gpt4oMiniTts} => reqs[i].cost = 0

\* a submit on gpt-4o-mini was answered after 3 prompt and 2 completion
\* tokens: the formula gives 1.65 millionths, the response says 2
C18_Witness ==
  \E i \in Reqs :
    /\ translateModel = Gpt4oMini /\ reqs[i].status = 200
    /\ reqs[i].usage.prompt_tokens = 3 /\ reqs[i].usage.completion_tokens = 2
    /\ reqs[i].cost = 2

\* C19: the first thing written to the listener of an accepted subscription
\* is the ready event that names the channel it asked for; translation events
\* and pings come after it, ready is written once, and nothing is written to
\* a rejected subscription.
C19_ReadyIsFirst ==
  \A l \in Lis :
    /\ lis[l].state \in {"open", "broken", "closed"} =>
          /\ lis[l].log # <<>>
          /\ lis[l].log[1].type = "ready"
          /\ lis[l].log[1].channel = lis[l].channel
          /\ \A n \in DOMAIN lis[l].log : n > 1 => lis[l].log[n].type # "ready"
    /\ lis[l].state \in {"none", "rejected"} => lis[l].log = <<>>

\* a listener that subscribed while a submit to its channel was in flight got
\* ready first, then that submit's translation event and a ping
C19_Witness ==
  \E i \in Reqs : \E l \in Lis :
    /\ lis[l].state = "open" /\ l \notin reqs[i].prior
    /\ Len(lis[l].log) >= 3 /\ lis[l].log[1].type = "ready"
    /\ EventsOf(l, i) # {}
    /\ \E n \in DOMAIN lis[l].log : lis[l].log[n].type = "ping"

\* C20: of two submits that name the same room with different non-empty
\* passcodes, exactly one passes the check and binds, and the other is
\* answered 403, however their steps interleave; a request that passed finds
\* its passcode still stored for its room; and no step changes or removes
\* the passcode stored for a room.
C20_OneWinner ==
  \A i, j \in Reqs :
    (/\ i # j /\ reqs[i].pc # "idle" /\ reqs[j].pc # "idle"
     /\ reqs[i].room = reqs[j].room
     /\ reqs[i].passcode # <<>> /\ reqs[j].passcode # <<>>
     /\ reqs[i].passcode # reqs[j].passcode)
      => \/ reqs[i].passed /\ ~reqs[j].passed /\ reqs[j].status = 403
         \/ reqs[j].passed /\ ~reqs[i].passed /\ reqs[i].status = 403

C20_WinnerStaysBound ==
  \A i \in Reqs :
    reqs[i].passed =>
      /\ reqs[i].room \in DOMAIN roomPasscodes
      /\ roomPasscodes[reqs[i].room] = reqs[i].passcode

C20_BindingKept ==
  \A R \in DOMAIN roomPasscodes :
    R \in DOMAIN roomPasscodes' /\ roomPasscodes'[R] = roomPasscodes[R]

C20_CheckAndBindAtomic ==
  [](C20_OneWinner /\ C20_WinnerStaysBound) /\ [][C20_BindingKept]_vars

\* the second submit arrived with another passcode while the first, which had
\* bound the room, was still waiting for its audio body
C20_Witness ==
  \E i, j \in Reqs :
    /\ reqs[i].pc = "body" /\ reqs[i].passed
    /\ reqs[j].room = reqs[i].room
    /\ reqs[j].passcode # <<>> /\ reqs[j].passcode # reqs[i].passcode
    /\ reqs[j].status = 403
    /\ roomPasscodes[reqs[i].room] = reqs[i].passcode

\* C21: when every pending call of a submit eventually returns, the submit
\* is eventually answered, and at no time has it been answered twice; the
\* answer is a 400, 403 or 500 error or the 200 aggregate, and a request that
\* has ended has been answered.
C21_AtMostOneResponse ==
  \A i \in Reqs :
    /\ reqs[i].responses <= 1
    /\ reqs[i].responses = 1 <=> reqs[i].status \in {200, 400, 403, 500}
    /\ reqs[i].responses = 0 <=> reqs[i].status = 0
    /\ reqs[i].pc = "done" => reqs[i].responses = 1

C21_ExactlyOneResponse ==
  /\ []C21_AtMostOneResponse
  /\ \A i \in 1..ResponseSubmits :
        (reqs[i].pc # "idle") ~> (reqs[i].pc = "done" /\ reqs[i].responses = 1)

\* a submit with three branches ended after two of them had failed, one in
\* translation and one in synthesis, and the third had completed: one response
C21_Witness ==
  \E i \in Reqs :
    /\ reqs[i].pc = "done" /\ Len(reqs[i].br) = 3
    /\ reqs[i].responses = 1 /\ reqs[i].status = 500
    /\ \E j, k, m \in DOMAIN reqs[i].br :
          /\ reqs[i].br[j].pc = "failed" /\ reqs[i].br[j].nTts = 0
          /\ reqs[i].br[k].pc = "failed" /\ reqs[i].br[k].nTts = 1
          /\ reqs[i].br[m].pc = "ok"

\* submit i bound its room and was then answered 400 (empty audio) or 500
BoundThenFailed(i) == reqs[i].passed /\ reqs[i].status \in {400, 500}

\* C22: a submit that passed the passcode check has its passcode stored for
\* its room from then on, before its body is read and after it has failed;
\* once such a submit has failed, a submit that names its room with another
\* (non-empty) passcode and a subscribe that names its room with another
\* passcode are answered 403.
C22_BoundWhileInFlight ==
  \A i \in Reqs :
    reqs[i].passed => MapGet(roomPasscodes, reqs[i].room) = reqs[i].passcode

C22_LaterRequestRejected ==
  \A i \in Reqs :
    BoundThenFailed(i) =>
      /\ \A j \in Reqs :
            (/\ reqs[j].pc = "idle" /\ reqs'[j].pc # "idle"
             /\ reqs'[j].room = reqs[i].room
             /\ reqs'[j].passcode # reqs[i].passcode)
              => reqs'[j].status = 403
      /\ \A l \in Lis :
            (/\ lis[l].state = "none" /\ lis'[l].state # "none"
             /\ lis'[l].channel # <<>>
             /\ NamedRoom(lis'[l].roomParam) = reqs[i].room
             /\ lis'[l].passcode # reqs[i].passcode)
              => lis'[l].status = 403

C22_BindingKeptAfterFailure ==
  []C22_BoundWhileInFlight /\ [][C22_LaterRequestRejected]_vars

\* the room a subscribe request is checked against: its room parameter
\* without surrounding whitespace, 'default' when that is empty
CheckedRoom(roomParam) ==
  IF TrimEnd(TrimStart(roomParam)) = <<>> THEN DefaultRoom
  ELSE TrimEnd(TrimStart(roomParam))

\* C23: the step of a subscribe request leaves the room registry as it was;
\* when the room it is checked against has no passcode bound and it names a
\* channel, it is accepted whatever passcode it carries; when it is answered
\* 400 or 403 it registers no listener, writes nothing and starts no timer.
\* A submit with a non-empty passcode to a room without a bound passcode
\* binds it, whoever has subscribed before.
C23_SubscribeStep ==
  \A l \in Lis :
    (lis[l].state = "none" /\ lis'[l].state # "none") =>
      /\ roomPasscodes' = roomPasscodes
      /\ (/\ lis'[l].channel # <<>>
          /\ MapGet(roomPasscodes, CheckedRoom(lis'[l].roomParam)) = <<>>)
            => lis'[l].status = 200 /\ l \in Registered(subscribers')
      /\ lis'[l].status \in {400, 403} =>
            /\ subscribers' = subscribers
            /\ ~lis'[l].timer /\ lis'[l].log = <<>>

C23_SubmitStillBinds ==
  \A j \in Reqs :
    (/\ reqs[j].pc = "idle" /\ reqs'[j].pc # "idle"
     /\ MapGet(roomPasscodes, reqs'[j].room) = <<>>
     /\ reqs'[j].passcode # <<>>)
      => /\ reqs'[j].passed
         /\ MapGet(roomPasscodes', reqs'[j].room) = reqs'[j].passcode

C23_RejectedState ==
  \A l \in Lis :
    lis[l].state = "rejected" =>
      /\ lis[l].status \in {400, 403}
      /\ l \notin Registered(subscribers)
      /\ ~lis[l].timer /\ lis[l].pings = 0 /\ lis[l].log = <<>>

LabelsAsWritten(repeats, list) ==
  IF repeats = <<>> /\ list = <<>> THEN <<English>>
  ELSE IF repeats = RepeatedLangs /\ list = ListedLangs
    THEN <<English, mandarin, Cantonese>>
  ELSE <<>>

\* C24: the results of a submit answered 200 are one per unique requested
\* label, in the order of the labels' first occurrence, each carrying the
\* label as the caller wrote it and the translation of its own branch,
\* whatever order the branches completed in.
C24_ResultsInRequestOrder ==
  \A i \in Reqs :
    reqs[i].status = 200 =>
      LET want == LabelsAsWritten(reqs[i].repeats, reqs[i].list)
      IN  /\ Len(reqs[i].results) = Len(want)
          /\ \A k \in DOMAIN want :
                /\ reqs[i].results[k].language = want[k]
                /\ reqs[i].results[k].translation = reqs[i].br[k].translation

\* the three branches completed in the order Cantonese, mandarin, English
\* and the results are English, mandarin, Cantonese
C24_Witness ==
  \E i \in Reqs : \E l \in Lis :
    /\ reqs[i].status = 200 /\ Len(reqs[i].results) = 3
    /\ reqs[i].finished = <<3, 2, 1>>
    /\ reqs[i].results[1].language = English
    /\ reqs[i].results[2].language = mandarin
    /\ reqs[i].results[3].language = Cantonese
    /\ EventsOf(l, i) # {}
    /\ \A n \in EventsOf(l, i) : lis[l].log[n].language = mandarin

====
